---- MODULE Spec2Model ----
(***************************************************************************)
(* Model of src/process.py: the three table transforms preprocess,         *)
(* filter_dates and reindex_options, run as the pipeline                   *)
(* preprocess -> filter_dates -> reindex_options on a bounded input table. *)
(*                                                                         *)
(* A table is a sequence of rows; a row is [label, cells]: its pandas      *)
(* index label and a function from column names to cells.  A cell is a     *)
(* triple <<kind, n, d>>:                                                   *)
(*   <<"num", n, d>>   the number n/d (d > 0, lowest terms)                *)
(*   <<"nan", 0, 1>>   NaN, a missing value                                *)
(*   <<"str", 0, 1>>   the empty string ''                                 *)
(*   <<"str", k, 1>>   a non-empty string; a 'YYYY-MM-DD' date string is   *)
(*                     the string whose digits read k = YYYYMMDD           *)
(*   <<"date", o, 1>>  a datetime.date, o its proleptic ordinal            *)
(* Python floats are modelled by exact rationals.  pandas behaves as the    *)
(* releases the code was written for: fillna(inplace=True) on data[column] *)
(* writes through to the frame, and .at on an absent label appends a row.  *)
(***************************************************************************)
EXTENDS Integers, Sequences, FiniteSets, TLC

VARIABLES pc, raw, weightArgs, today, cutoff, data, weights, options

vars == <<pc, raw, weightArgs, today, cutoff, data, weights, options>>

----------------------------------------------------------------------------
(* Cells *)

Num(n) == <<"num", n, 1>>
NaN == <<"nan", 0, 1>>
Empty == <<"str", 0, 1>>
Str(k) == <<"str", k, 1>>
None == <<"none", 0, 1>>

IsNaN(c) == c[1] = "nan"

----------------------------------------------------------------------------
(* Exact rational arithmetic on "num" cells *)

Abs(n) == IF n < 0 THEN -n ELSE n

RECURSIVE GCD(_, _)
GCD(a, b) == IF b = 0 THEN a ELSE GCD(b, a % b)

Rat(n, d) ==
    LET g == GCD(Abs(n), Abs(d))
        s == IF d < 0 THEN -1 ELSE 1
    IN  <<"num", (s * n) \div g, (s * d) \div g>>

Add(x, y) == Rat(x[2] * y[3] + y[2] * x[3], x[3] * y[3])
Mul(x, y) == Rat(x[2] * y[2], x[3] * y[3])
Div(x, y) == Rat(x[2] * y[3], x[3] * y[2])

\* A possible slip: math.floor in place of int().
IntFloor(x) == Num(x[2] \div x[3])

\* Python's int() on a float: truncation toward zero.
IntTruncate(x) ==
    IF x[2] >= 0 THEN Num(x[2] \div x[3]) ELSE Num(-((-x[2]) \div x[3]))

----------------------------------------------------------------------------
(* Calendar dates: datetime.date ordinals, and '%Y-%m-%d' parsing *)

IsLeap(y) == (y % 4 = 0) /\ ((y % 100 # 0) \/ (y % 400 = 0))

DaysInMonth(y, m) ==
    IF m = 2 THEN (IF IsLeap(y) THEN 29 ELSE 28)
    ELSE IF m \in {4, 6, 9, 11} THEN 30 ELSE 31

RECURSIVE DaysBeforeMonth(_, _)
DaysBeforeMonth(y, m) ==
    IF m = 1 THEN 0 ELSE DaysBeforeMonth(y, m - 1) + DaysInMonth(y, m - 1)

DaysBeforeYear(y) ==
    365 * (y - 1) + ((y - 1) \div 4) - ((y - 1) \div 100) + ((y - 1) \div 400)

Ordinal(y, m, d) == DaysBeforeYear(y) + DaysBeforeMonth(y, m) + d

Date(y, m, d) == <<"date", Ordinal(y, m, d), 1>>

\* The string 'YYYY-MM-DD' whose digits read y, m, d.
DateStr(y, m, d) == Str(y * 10000 + m * 100 + d)

\* pd.to_datetime(s, format='%Y-%m-%d').date() of one date string.
ParseDate(c) == Date(c[2] \div 10000, (c[2] \div 100) % 100, c[2] % 100)

\* date - datetime.timedelta(days=n)
MinusDays(date, n) == <<"date", date[2] - n, 1>>

----------------------------------------------------------------------------
(* Tables *)

RECURSIVE KeepAt(_, _)
\* Boolean-mask indexing (data[mask], data.loc[mask]): the rows of sequence s
\* at the positions in K, in order, each with its label.
KeepAt(s, K) ==
    IF s = <<>> THEN <<>>
    ELSE KeepAt(SubSeq(s, 1, Len(s) - 1), K)
         \o (IF Len(s) \in K THEN <<s[Len(s)]>> ELSE <<>>)

RECURSIVE SumCol(_, _)
\* data[col].sum() over a sequence of rows with numeric cells in col.
SumCol(s, col) ==
    IF s = <<>> THEN Num(0) ELSE Add(Head(s).cells[col], SumCol(Tail(s), col))

----------------------------------------------------------------------------
(* preprocess *)

Metrics == <<"impression", "engagement", "click", "conversion">>
MetricSet == {Metrics[i] : i \in 1..Len(Metrics)}

\* weight + 's' : the column of a metric.
MetricCol(w) ==
    CASE w = "impression" -> "impressions"
      [] w = "engagement" -> "engagements"
      [] w = "click" -> "clicks"
      [] w = "conversion" -> "conversions"

Processed == {"cost", "impressions", "engagements", "clicks", "conversions"}

\* column.lower().replace(" ", "_") on the header names the model's inputs use.
StandardizeName(c) ==
    CASE c = "Ad ID" -> "ad_id"
      [] c = "Channel" -> "channel"
      [] c = "Reporting Starts" -> "reporting_starts"
      [] c = "Reporting Ends" -> "reporting_ends"
      [] c = "Amount Spent (EUR)" -> "amount_spent_(eur)"
      [] c = "Impressions" -> "impressions"
      [] c = "Post Engagement" -> "post_engagement"
      [] c = "Link Clicks" -> "link_clicks"
      [] c = "Purchases" -> "purchases"
      [] c = "Day" -> "day"
      [] c = "Currency" -> "currency"
      [] c = "Cost" -> "cost"
      [] c = "Engagements" -> "engagements"
      [] c = "Clicks" -> "clicks"
      [] c = "Conversions" -> "conversions"
      [] OTHER -> c

\* The data.rename calls for the Facebook and Google exports.
RenameColumn(c) ==
    CASE c = "reporting_ends" -> "date"
      [] c = "amount_spent_(eur)" -> "cost"
      [] c = "post_engagement" -> "engagements"
      [] c = "link_clicks" -> "clicks"
      [] c = "purchases" -> "conversions"
      [] c = "day" -> "date"
      [] OTHER -> c

Dropped == {"reporting_starts", "currency"}

CanonicalName(c) == RenameColumn(StandardizeName(c))

\* Lines 15-30: standardize, rename, drop the extraneous columns.
Canonicalize(t) ==
    LET cols == {CanonicalName(c) : c \in t.columns} \ Dropped
        Cells(r) == [c \in cols |->
                        r.cells[CHOOSE k \in t.columns : CanonicalName(k) = c]]
    IN  [columns |-> cols,
         rows |-> [i \in 1..Len(t.rows) |->
                      [label |-> t.rows[i].label, cells |-> Cells(t.rows[i])]]]

\* data.replace('', np.nan): every cell of the table.
ReplaceEmpty(c) == IF c = Empty THEN NaN ELSE c

\* data[column].fillna(value=0.0, ...)
FillNa(c) == IF IsNaN(c) THEN Num(0) ELSE c

\* Lines 33-36 on one row.
CleanRow(r) ==
    [r EXCEPT !.cells = [c \in DOMAIN r.cells |->
        IF c \in Processed THEN FillNa(ReplaceEmpty(r.cells[c]))
        ELSE ReplaceEmpty(r.cells[c])]]

\* A possible slip: data['cost'] > 0
HasCostPositive(r) == r.cells["cost"][2] > 0

\* Line 39: data['cost'] != 0
HasCost(r) == r.cells["cost"] # Num(0)

\* A possible slip: "if not weight" in place of "is None", which infers a
\* weight supplied as 0.
ResolveWeightFalsy(arg, rows, w) ==
    IF arg \in {None, Num(0)}
    THEN IF SumCol(rows, MetricCol(w)) = Num(0)
         THEN Num(0)
         ELSE Div(Mul(SumCol(rows, "cost"), Num(100)), SumCol(rows, MetricCol(w)))
    ELSE arg

\* Lines 42-51: one weight, from its argument and the remaining rows.
ResolveWeight(arg, rows, w) ==
    IF arg = None
    THEN IF SumCol(rows, MetricCol(w)) = Num(0)
         THEN Num(0)
         ELSE Div(Mul(SumCol(rows, "cost"), Num(100)), SumCol(rows, MetricCol(w)))
    ELSE arg

\* Lines 54-58: the weighted sum of one row's metrics.
Successes(r, ws) ==
    Add(Add(Add(Mul(r.cells["impressions"], ws["impression"]),
                Mul(r.cells["engagements"], ws["engagement"])),
            Mul(r.cells["clicks"], ws["click"])),
        Mul(r.cells["conversions"], ws["conversion"]))

\* Line 62: int(row['cost'] * 100) + row['successes'] + 1
Trials(r, succ) ==
    Add(Add(IntTruncate(Mul(r.cells["cost"], Num(100))), succ), Num(1))

\* Lines 54-67 on one row: add successes and trials, drop the processed columns.
Derive(r, ws) ==
    LET succ == Successes(r, ws)
        keep == (DOMAIN r.cells) \ Processed
    IN  [r EXCEPT !.cells = [c \in keep \cup {"successes", "trials"} |->
            IF c = "successes" THEN succ
            ELSE IF c = "trials" THEN Trials(r, succ)
            ELSE r.cells[c]]]

\* Line 77: dropna(axis=0, how='any') keeps the rows with no NaN cell.
NoNaN(r) == \A c \in DOMAIN r.cells : ~IsNaN(r.cells[c])

\* preprocess(data, impression_weight, engagement_weight, click_weight,
\* conversion_weight): the returned table, the resolved weights, and whether
\* the call raised (data[column] on an absent column is a KeyError).
preprocess(t, args) ==
    LET canon == Canonicalize(t)
        cleaned == [i \in 1..Len(canon.rows) |-> CleanRow(canon.rows[i])]
        remaining == KeepAt(cleaned, {i \in 1..Len(cleaned) : HasCost(cleaned[i])})
        ws == [w \in MetricSet |-> ResolveWeight(args[w], remaining, w)]
        derived == [i \in 1..Len(remaining) |-> Derive(remaining[i], ws)]
    IN  IF ~(Processed \subseteq canon.columns)
        THEN [raised |-> "KeyError", weights |-> <<>>,
              table |-> [columns |-> {}, rows |-> <<>>]]
        ELSE [raised |-> "",
              weights |-> ws,
              table |-> [columns |-> (canon.columns \ Processed)
                                        \cup {"successes", "trials"},
                         rows |-> KeepAt(derived,
                                    {i \in 1..Len(derived) : NoNaN(derived[i])})]]

----------------------------------------------------------------------------
(* filter_dates *)

\* A possible slip: > in place of >=.
InRangeStrict(date, now, days) == date[2] > MinusDays(now, days)[2]

\* data['date'] >= datetime.date.today() - datetime.timedelta(days=cutoff)
InRange(date, now, days) == date[2] >= MinusDays(now, days)[2]

\* filter_dates(data, cutoff), with datetime.date.today() = now.
filter_dates(t, days, now) ==
    LET parsed == [i \in 1..Len(t.rows) |->
                     [t.rows[i] EXCEPT !.cells["date"] = ParseDate(@)]]
    IN  [columns |-> t.columns,
         rows |-> KeepAt(parsed,
                    {i \in 1..Len(parsed) : InRange(parsed[i].cells["date"], now, days)})]

----------------------------------------------------------------------------
(* reindex_options *)

NotIdentity == {"date", "trials", "successes"}

\* data.drop(['date', 'trials', 'successes'], axis='columns') on one row.
Combination(r) == [c \in (DOMAIN r.cells) \ NotIdentity |-> r.cells[c]]

\* combinations.drop_duplicates().reset_index().drop('index', ...): the first
\* occurrence of each combination, in order; an option's id is its position
\* minus one.
Options(rows) ==
    LET first == {i \in 1..Len(rows) :
                    \A j \in 1..(i - 1) : Combination(rows[j]) # Combination(rows[i])}
        kept == KeepAt(rows, first)
    IN  [k \in 1..Len(kept) |-> Combination(kept[k])]

\* options.loc[options['ad_id'] == ad].index[0]
FirstOption(opts, ad) ==
    (CHOOSE k \in 1..Len(opts) :
        /\ opts[k]["ad_id"] = ad
        /\ \A j \in 1..(k - 1) : opts[j]["ad_id"] # ad) - 1

\* data.at[label, 'option_id'] = v: sets the cell of the row labelled label;
\* when no row has that label, pandas appends a row with that label whose
\* other cells are NaN.
SetAt(rows, label, v) ==
    IF \E k \in 1..Len(rows) : rows[k].label = label
    THEN [k \in 1..Len(rows) |->
            IF rows[k].label = label
            THEN [rows[k] EXCEPT !.cells["option_id"] = v]
            ELSE rows[k]]
    ELSE Append(rows,
            [label |-> label,
             cells |-> [c \in DOMAIN rows[1].cells |->
                          IF c = "option_id" THEN v ELSE NaN]])

RECURSIVE AssignLoop(_, _, _, _)
\* for i in range(n): data.at[i, 'option_id'] = <option of data.iloc[i]>
\* (i counts from 0; n = len(data) is read once, before the loop).
AssignLoop(rows, opts, i, n) ==
    IF i >= n THEN rows
    ELSE AssignLoop(
            SetAt(rows, i, Num(FirstOption(opts, rows[i + 1].cells["ad_id"]))),
            opts, i + 1, n)

\* reindex_options(data): [options, data].
reindex_options(t) ==
    LET zeroed == [k \in 1..Len(t.rows) |->
                     [t.rows[k] EXCEPT !.cells =
                        [c \in (DOMAIN t.rows[k].cells) \cup {"option_id"} |->
                            IF c = "option_id" THEN Num(0) ELSE t.rows[k].cells[c]]]]
    IN  [options |-> Options(t.rows),
         table |-> [columns |-> t.columns \cup {"option_id"},
                    rows |-> AssignLoop(zeroed, Options(t.rows), 0, Len(t.rows))]]

----------------------------------------------------------------------------
(* Input tables *)

MaxRows == 2
MaxRecords == 3

AllCols == {"ad_id", "channel", "date"} \cup Processed

\* The header an export uses for a canonical column.
ExportName(schema, c) ==
    CASE schema = "facebook" ->
            (CASE c = "ad_id" -> "Ad ID"
               [] c = "channel" -> "Channel"
               [] c = "date" -> "Reporting Ends"
               [] c = "cost" -> "Amount Spent (EUR)"
               [] c = "impressions" -> "Impressions"
               [] c = "engagements" -> "Post Engagement"
               [] c = "clicks" -> "Link Clicks"
               [] c = "conversions" -> "Purchases")
      [] schema = "google" ->
            (CASE c = "ad_id" -> "Ad ID"
               [] c = "channel" -> "Channel"
               [] c = "date" -> "Day"
               [] c = "cost" -> "Cost"
               [] c = "impressions" -> "Impressions"
               [] c = "engagements" -> "Engagements"
               [] c = "clicks" -> "Clicks"
               [] c = "conversions" -> "Conversions")
      [] OTHER -> c

\* The extraneous column of an export.
ExtraCols(schema) ==
    CASE schema = "facebook" -> {"Reporting Starts"}
      [] schema = "google" -> {"Currency"}
      [] OTHER -> {}

Schemas == {"canonical", "facebook", "google"}

\* One input row under the canonical column names; m = <<impressions,
\* engagements, clicks, conversions>>.
Row(ad, ch, date, cost, m) ==
    [c \in AllCols |->
        CASE c = "ad_id" -> ad
          [] c = "channel" -> ch
          [] c = "date" -> date
          [] c = "cost" -> cost
          [] c = "impressions" -> m[1]
          [] c = "engagements" -> m[2]
          [] c = "clicks" -> m[3]
          [] c = "conversions" -> m[4]]

\* The table a caller passes: rows labelled 0..n-1 (a fresh RangeIndex),
\* headers as the export writes them, the columns in absent left out.
RawTable(schema, absent, rows) ==
    LET cols == {ExportName(schema, c) : c \in AllCols \ absent}
                    \cup ExtraCols(schema)
    IN  [columns |-> cols,
         rows |-> [i \in 1..Len(rows) |->
            [label |-> i - 1,
             cells |-> [k \in cols |->
                IF k \in ExtraCols(schema) THEN Str(9)
                ELSE rows[i][CHOOSE c \in AllCols : ExportName(schema, c) = k]]]]]

SeqsUpTo(S, n) == UNION {[1..k -> S] : k \in 0..n}

Today == Date(2024, 6, 15)
Recent == DateStr(2024, 6, 14)

NoWeights == [w \in MetricSet |-> None]

CostValues == {Empty, Num(0), Rat(3, 200), Rat(-3, 200)}

MetricVectors ==
    { <<Num(2), Num(0), Empty, Num(1)>>,
      <<Num(0), Num(1), Num(1), Num(0)>>,
      <<NaN, Num(3), Num(0), NaN>> }

NumericRows ==
    {Row(Num(1), Str(1), Recent, c, m) : c \in CostValues, m \in MetricVectors}

WeightValues == {None, Num(0), Num(2), Num(-1)}

\* Up to MaxRows rows of every cost and metric kind, each weight omitted or
\* supplied.
NumericInputs ==
    [schema : {"canonical"}, absent : {{}},
     rows : SeqsUpTo(NumericRows, MaxRows),
     args : [impression : {None, Num(-1)}, engagement : {None, Num(0)},
             click : {None, Num(2)}, conversion : {None, Rat(1, 2)}],
     today : {Today}, cutoff : {7}]

\* One row, every combination of omitted, zero, positive and negative weights.
WeightInputs ==
    [schema : {"canonical"}, absent : {{}},
     rows : SeqsUpTo(NumericRows, 1),
     args : [MetricSet -> WeightValues],
     today : {Today}, cutoff : {7}]

\* Rows whose identifying cells may be missing or empty.
IdentityRows ==
    {Row(ad, ch, Recent, c, <<Num(1), Num(1), Num(1), Num(1)>>) :
        ad \in {Num(1), NaN, Empty}, ch \in {Str(1), Empty},
        c \in {NaN, Num(0), Num(1)}}

\* Every export schema, with at most one of the five processed columns absent.
SchemaInputs ==
    [schema : Schemas,
     absent : {{}} \cup {{c} : c \in Processed},
     rows : SeqsUpTo(IdentityRows, 1),
     args : {NoWeights}, today : {Today}, cutoff : {7}]

IdentityInputs ==
    [schema : {"canonical"}, absent : {{}},
     rows : SeqsUpTo(IdentityRows, MaxRows),
     args : {NoWeights}, today : {Today}, cutoff : {7}]

Inputs == NumericInputs \cup WeightInputs \cup SchemaInputs \cup IdentityInputs

DateValues ==
    {DateStr(2024, 6, 7), DateStr(2024, 6, 8), DateStr(2024, 6, 16),
     DateStr(2024, 2, 26), DateStr(2024, 2, 27), DateStr(2023, 6, 20)}

DatedRows ==
    {Row(Num(1), Str(1), d, Num(1), <<Num(1), Num(1), Num(1), Num(1)>>) :
        d \in DateValues}

\* Rows on both sides of the cutoff, for several days and windows.
DateInputs ==
    [schema : {"canonical"}, absent : {{}},
     rows : SeqsUpTo(DatedRows, MaxRecords),
     args : {NoWeights},
     today : {Today, Date(2024, 3, 5)}, cutoff : {0, 7, 366}]

RecordRows ==
    {Row(ad, ch, d, Num(1), <<Num(1), Num(1), Num(1), Num(1)>>) :
        ad \in {Num(42), Num(43), NaN}, ch \in {Str(1), Str(2)},
        d \in {DateStr(2024, 6, 1), Recent}}

\* Records of two ads on two channels, some removed by the earlier stages.
IndexInputs ==
    [schema : {"canonical"}, absent : {{}},
     rows : SeqsUpTo(RecordRows, MaxRecords),
     args : {NoWeights}, today : {Today}, cutoff : {7}]

----------------------------------------------------------------------------
(* The pipeline *)

InitWith(S) ==
    \E p \in S :
        /\ pc = "start"
        /\ raw = RawTable(p.schema, p.absent, p.rows)
        /\ weightArgs = p.args
        /\ today = p.today
        /\ cutoff = p.cutoff
        /\ data = raw
        /\ weights = <<>>
        /\ options = <<>>

Init == InitWith(Inputs)

Preprocess ==
    /\ pc = "start"
    /\ LET res == preprocess(raw, weightArgs)
       IN  /\ pc' = IF res.raised = "" THEN "preprocessed" ELSE res.raised
           /\ data' = res.table
           /\ weights' = res.weights
    /\ UNCHANGED <<raw, weightArgs, today, cutoff, options>>

FilterDates ==
    /\ pc = "preprocessed"
    /\ data' = filter_dates(data, cutoff, today)
    /\ pc' = "filtered"
    /\ UNCHANGED <<raw, weightArgs, today, cutoff, weights, options>>

ReindexOptions ==
    /\ pc = "filtered"
    /\ LET res == reindex_options(data)
       IN  /\ options' = res.options
           /\ data' = res.table
    /\ pc' = "reindexed"
    /\ UNCHANGED <<raw, weightArgs, today, cutoff, weights>>

Next == Preprocess \/ FilterDates \/ ReindexOptions

Spec == Init /\ [][Next]_vars

InitDates == InitWith(DateInputs)

SpecDates == InitDates /\ [][Next]_vars

InitIndex == InitWith(IndexInputs)

SpecIndex == InitIndex /\ [][Next]_vars

----------------------------------------------------------------------------
(* Properties of preprocess *)

\* x <= y
Leq(x, y) == x[2] * y[3] <= y[2] * x[3]
\* math.floor
Floor(x) == Num(x[2] \div x[3])
Neg(x) == <<"num", -x[2], x[3]>>
\* Rounding toward zero, from floor.
TowardZero(x) == IF x[2] >= 0 THEN Floor(x) ELSE Neg(Floor(Neg(x)))

\* A missing or empty value counts as 0.
Val(c) == IF c \in {NaN, Empty} THEN Num(0) ELSE c

\* The input rows under the canonical column names.
InputRows == Canonicalize(raw).rows
HasProcessedColumns == Processed \subseteq Canonicalize(raw).columns
Returned == pc = "preprocessed"

\* The input row an output row comes from: labels are 0..n-1 in the input.
InputOf(r) == InputRows[r.label + 1].cells

ZeroCost(cells) == Val(cells["cost"]) = Num(0)

RECURSIVE SumRemaining(_, _, _)
\* The sum of column col over the first n input rows with non-zero cost.
SumRemaining(rows, col, n) ==
    IF n = 0 THEN Num(0)
    ELSE Add(IF ZeroCost(rows[n].cells) THEN Num(0) ELSE Val(rows[n].cells[col]),
             SumRemaining(rows, col, n - 1))

NonNegativeInput ==
    \A i \in 1..Len(InputRows) : \A c \in Processed :
        Val(InputRows[i].cells[c])[2] >= 0

\* C1: for non-negative costs and counts and any weights, supplied or
\* inferred, every returned row has 0 <= successes <= trials and trials >= 1.
C1_SuccessesWithinTrials ==
    (Returned /\ NonNegativeInput) =>
        \A k \in 1..Len(data.rows) :
            LET succ == data.rows[k].cells["successes"]
                tri == data.rows[k].cells["trials"]
            IN  Leq(Num(0), succ) /\ Leq(succ, tri) /\ Leq(Num(1), tri)

\* C2: each weight is resolved on its own: a supplied weight (0 included) is
\* used unchanged; an omitted one is 0 when the metric sums to 0 over the rows
\* left after zero-cost exclusion, and sum(cost) * 100 / sum(metric) over
\* those rows otherwise.
C2_WeightResolution ==
    Returned =>
        \A w \in MetricSet :
            LET n == Len(InputRows)
                metric == SumRemaining(InputRows, MetricCol(w), n)
                cost == SumRemaining(InputRows, "cost", n)
            IN  IF weightArgs[w] # None THEN weights[w] = weightArgs[w]
                ELSE IF metric = Num(0) THEN weights[w] = Num(0)
                ELSE Mul(weights[w], metric) = Mul(cost, Num(100))

\* C2's case: a weight inferred as a ratio while a zero-cost row with a count
\* of that metric was excluded, beside a supplied weight of 0.
C2_Witness ==
    /\ Returned
    /\ \E w \in MetricSet :
        /\ weightArgs[w] = None
        /\ weights[w] # Num(0)
        /\ \E i \in 1..Len(InputRows) :
            /\ ZeroCost(InputRows[i].cells)
            /\ Val(InputRows[i].cells[MetricCol(w)]) # Num(0)
    /\ \E w \in MetricSet : weightArgs[w] = Num(0)

\* The weighted sum of an input row's metrics under the resolved weights.
WeightedSum(cells) ==
    Add(Add(Add(Mul(Val(cells["impressions"]), weights["impression"]),
                Mul(Val(cells["engagements"]), weights["engagement"])),
            Mul(Val(cells["clicks"]), weights["click"])),
        Mul(Val(cells["conversions"]), weights["conversion"]))

CentsOf(cells) == Mul(Val(cells["cost"]), Num(100))

\* C3 as stated: every kept row has successes = the weighted sum of its own
\* metrics and trials = floor(cost * 100) + successes + 1.
C3_TrialsFloor ==
    Returned =>
        \A k \in 1..Len(data.rows) :
            LET in == InputOf(data.rows[k])
                succ == WeightedSum(in)
            IN  /\ data.rows[k].cells["successes"] = succ
                /\ data.rows[k].cells["trials"] =
                        Add(Add(Floor(CentsOf(in)), succ), Num(1))

\* C3 amended: every kept row has successes = the weighted sum of its own
\* metrics and trials = (cost * 100 rounded toward zero) + successes + 1,
\* which is floor(cost * 100) + successes + 1 when the cost is not negative.
C3_TrialsTowardZero ==
    Returned =>
        \A k \in 1..Len(data.rows) :
            LET in == InputOf(data.rows[k])
                succ == WeightedSum(in)
            IN  /\ data.rows[k].cells["successes"] = succ
                /\ data.rows[k].cells["trials"] =
                        Add(Add(TowardZero(CentsOf(in)), succ), Num(1))
                /\ CentsOf(in)[2] >= 0 =>
                        data.rows[k].cells["trials"] =
                            Add(Add(Floor(CentsOf(in)), succ), Num(1))

\* C3's case: a kept row of negative fractional cost with an empty or missing
\* metric and non-zero successes.
C3_Witness ==
    /\ Returned
    /\ \E k \in 1..Len(data.rows) :
        LET in == InputOf(data.rows[k])
        IN  /\ CentsOf(in)[2] < 0
            /\ CentsOf(in)[3] # 1
            /\ \E w \in MetricSet : in[MetricCol(w)] \in {NaN, Empty}
            /\ data.rows[k].cells["successes"] # Num(0)

NonMetric(cells) == (DOMAIN cells) \ Processed

Appears(i) ==
    \E k \in 1..Len(data.rows) :
        /\ data.rows[k].label = i - 1
        /\ \A c \in NonMetric(InputRows[i].cells) :
                data.rows[k].cells[c] = InputRows[i].cells[c]

\* C4 as stated: no input row of cost 0 (missing and '' included) is in the
\* output, and every input row of non-zero cost with no missing value in its
\* non-metric columns is.
C4_ZeroCostExcluded ==
    Returned =>
        \A i \in 1..Len(InputRows) :
            LET in == InputRows[i].cells
            IN  /\ ZeroCost(in) => ~Appears(i)
                /\ (~ZeroCost(in) /\ \A c \in NonMetric(in) : in[c] # NaN)
                        => Appears(i)

\* C4 amended: no input row of cost 0 (missing and '' included) is in the
\* output, and every input row of non-zero cost with neither a missing value
\* nor an empty string in its non-metric columns is.
C4_ZeroCostExcludedNoEmpty ==
    Returned =>
        \A i \in 1..Len(InputRows) :
            LET in == InputRows[i].cells
            IN  /\ ZeroCost(in) => ~Appears(i)
                /\ (~ZeroCost(in) /\ \A c \in NonMetric(in) : in[c] \notin {NaN, Empty})
                        => Appears(i)

\* C4's case: a zero-cost row with impressions is excluded beside a row that
\* is kept.
C4_Witness ==
    /\ Returned
    /\ \E i \in 1..Len(InputRows) :
        /\ ZeroCost(InputRows[i].cells)
        /\ Val(InputRows[i].cells["impressions"]) # Num(0)
        /\ ~Appears(i)
    /\ \E i \in 1..Len(InputRows) : Appears(i)

\* C5: a call with a negative supplied weight is rejected with InvalidWeight
\* and returns no table.
C5_NegativeWeightRejected ==
    (\E w \in MetricSet : weightArgs[w][2] < 0) => pc \in {"start", "InvalidWeight"}

\* C6: with one of the five processed columns absent after aliasing,
\* preprocess does not raise.
C6_AbsentColumnTolerated ==
    ~HasProcessedColumns => pc \in {"start", "preprocessed", "filtered", "reindexed"}

----------------------------------------------------------------------------
(* Properties of filter_dates *)

\* The day number of a 'YYYY-MM-DD' string.
DayOf(c) == ParseDate(c)[2]

RECURSIVE Since(_, _)
\* The rows of s dated on or after day number first, in order.
Since(s, first) ==
    IF s = <<>> THEN <<>>
    ELSE (IF DayOf(Head(s).cells["date"]) >= first THEN <<Head(s)>> ELSE <<>>)
         \o Since(Tail(s), first)

\* C7: filter_dates returns exactly the rows dated d >= today - cutoff_days:
\* the row dated today - cutoff_days is kept, the day before is not, and
\* every later row, future ones included, is kept.
C7_FilterDatesWindow ==
    [][FilterDates =>
        LET kept == Since(data.rows, today[2] - cutoff)
        IN  /\ Len(data'.rows) = Len(kept)
            /\ \A k \in 1..Len(kept) :
                /\ data'.rows[k].label = kept[k].label
                /\ data'.rows[k].cells["date"][2] = DayOf(kept[k].cells["date"])
                /\ \A c \in (DOMAIN kept[k].cells) \ {"date"} :
                        data'.rows[k].cells[c] = kept[k].cells[c]]_vars

HasDate(rows, d) == \E k \in 1..Len(rows) : rows[k].cells["date"] = d

\* C7's case: today 2024-06-15 and a cutoff of 7 days; of the rows dated
\* 2024-06-07, 2024-06-08 and 2024-06-16 the last two are returned.
C7_Witness ==
    /\ pc = "filtered"
    /\ today = Date(2024, 6, 15)
    /\ cutoff = 7
    /\ HasDate(InputRows, DateStr(2024, 6, 7))
    /\ HasDate(InputRows, DateStr(2024, 6, 8))
    /\ HasDate(InputRows, DateStr(2024, 6, 16))
    /\ Len(data.rows) = 2
    /\ HasDate(data.rows, Date(2024, 6, 8))
    /\ HasDate(data.rows, Date(2024, 6, 16))

----------------------------------------------------------------------------
(* Properties of reindex_options *)

AdIds(rows) == {rows[k].cells["ad_id"] : k \in 1..Len(rows)}

\* The position, from 0, of the first option with this ad_id.
PositionOf(opts, ad) ==
    (CHOOSE k \in 1..Len(opts) :
        opts[k]["ad_id"] = ad /\ \A j \in 1..(k - 1) : opts[j]["ad_id"] # ad) - 1

\* C8: the options table has as many rows as the input has distinct ad_id
\* values, also when rows of one ad_id differ in another identity column;
\* option ids are 0..n-1 in first-seen order.
C8_OneOptionPerAdId ==
    [][ReindexOptions =>
        /\ Len(options') = Cardinality(AdIds(data.rows))
        /\ \A k \in 1..Len(options') :
            \E i \in 1..Len(data.rows) :
                /\ Combination(data.rows[i]) = options'[k]
                /\ \A j \in 1..(i - 1) :
                    \E m \in 1..k : options'[m] = Combination(data.rows[j])]_vars

\* C9: after preprocess and filter_dates, every input record carries the
\* option_id that is the position of the first option with its ad_id.
C9_OptionIdByAdId ==
    [][ReindexOptions =>
        \A i \in 1..Len(data.rows) :
            \E k \in 1..Len(data'.rows) :
                /\ data'.rows[k].label = data.rows[i].label
                /\ data'.rows[k].cells["ad_id"] = data.rows[i].cells["ad_id"]
                /\ data'.rows[k].cells["option_id"] =
                        Num(PositionOf(options', data.rows[i].cells["ad_id"]))]_vars

\* C10: reindex_options only adds the option_id column: the same rows in the
\* same order, every original value unchanged, no row added or removed.
C10_OnlyAddsOptionId ==
    [][ReindexOptions =>
        /\ Len(data'.rows) = Len(data.rows)
        /\ \A i \in 1..Len(data.rows) :
            /\ data'.rows[i].label = data.rows[i].label
            /\ \A c \in DOMAIN data.rows[i].cells :
                    data'.rows[i].cells[c] = data.rows[i].cells[c]]_vars

====
